---- MODULE Spec2Model ----
(***************************************************************************)
(* A model of the browser-automation scripts of poap-test.  Every script   *)
(* is one async function: a straight line of awaited calls into the        *)
(* automation library, wrapped in try/catch blocks.  The model follows the *)
(* control flow of each script; what the library and the page answer (a    *)
(* call returns or throws, an element is visible or not, the page URL)     *)
(* is chosen nondeterministically.                                         *)
(*                                                                         *)
(* Strings that the code takes apart (device names, file names) are        *)
(* sequences of one-character strings; all other strings are TLA+ strings. *)
(***************************************************************************)
EXTENDS Integers, Sequences, FiniteSets, TLC

\* ------------------------------------------------------------------ bounds
\* Number of entries of devicesToTest a run visits (the first MaxDevices).
MaxDevices == 2
\* Number of entries of testScenarios a run replays (the last MaxScenarios,
\* so that the one scenario that expects success is among them).
MaxScenarios == 2

\* ----------------------------------------------------------------- strings
\* The characters the scripts' file names are made of, in ascending order of
\* their UTF-16 code unit (the order Array.prototype.sort compares by).
Ascii ==
    << " ", "+", "-", ".",
       "0", "1", "2", "3", "4", "5", "6", "7", "8", "9",
       "A", "B", "C", "D", "E", "F", "G", "H", "I", "J", "K", "L", "M",
       "N", "O", "P", "Q", "R", "S", "T", "U", "V", "W", "X", "Y", "Z",
       "a", "b", "c", "d", "e", "f", "g", "h", "i", "j", "k", "l", "m",
       "n", "o", "p", "q", "r", "s", "t", "u", "v", "w", "x", "y", "z" >>

Code(c) == CHOOSE i \in 1..Len(Ascii) : Ascii[i] = c

UpperFirst == Code("A")
LowerFirst == Code("a")

\* String.prototype.toLowerCase on one character.
ToLower(c) ==
    IF Code(c) >= UpperFirst /\ Code(c) < UpperFirst + 26
    THEN Ascii[Code(c) - UpperFirst + LowerFirst]
    ELSE c

RECURSIVE DropSpaces(_)
DropSpaces(s) ==
    IF s # << >> /\ Head(s) = " " THEN DropSpaces(Tail(s)) ELSE s

\* .replace(/\s+/g, '-'): every run of white space becomes one dash.
RECURSIVE ReplaceSpaces(_)
ReplaceSpaces(s) ==
    IF s = << >> THEN << >>
    ELSE IF Head(s) = " " THEN << "-" >> \o ReplaceSpaces(DropSpaces(s))
    ELSE << Head(s) >> \o ReplaceSpaces(Tail(s))

\* .replace(/\+/g, '-plus')
RECURSIVE ReplacePlus(_)
ReplacePlus(s) ==
    IF s = << >> THEN << >>
    ELSE IF Head(s) = "+" THEN << "-", "p", "l", "u", "s" >> \o ReplacePlus(Tail(s))
    ELSE << Head(s) >> \o ReplacePlus(Tail(s))

deviceToFilename(name) ==
    ReplacePlus(ReplaceSpaces([i \in 1..Len(name) |-> ToLower(name[i])]))

\* String(n): the decimal digits of a natural number.
RECURSIVE Digits(_)
Digits(n) ==
    IF n < 10 THEN << Ascii[Code("0") + n] >>
    ELSE Digits(n \div 10) \o << Ascii[Code("0") + (n % 10)] >>

\* String.prototype.padStart(width, '0')
RECURSIVE PadStart(_, _)
PadStart(s, width) ==
    IF Len(s) >= width THEN s ELSE PadStart(<< "0" >> \o s, width)

\* The clock reading of the run: new Date() in getFormattedDate.
Now == [date |-> 2, month |-> 10, fullYear |-> 2026]

\* DD-MM-YYYY; getMonth() counts from 0.
getFormattedDate ==
    PadStart(Digits(Now.date), 2) \o << "-" >>
        \o PadStart(Digits(Now.month + 1), 2) \o << "-" >>
        \o Digits(Now.fullYear)

WebmSuffix == << ".", "w", "e", "b", "m" >>

\* String.prototype.endsWith
EndsWith(s, suffix) ==
    /\ Len(s) >= Len(suffix)
    /\ SubSeq(s, Len(s) - Len(suffix) + 1, Len(s)) = suffix

\* a < b in the order of Array.prototype.sort without a comparator: by UTF-16
\* code units, a proper prefix before the longer string.
RECURSIVE StrLess(_, _)
StrLess(a, b) ==
    IF b = << >> THEN FALSE
    ELSE IF a = << >> THEN TRUE
    ELSE IF Head(a) = Head(b) THEN StrLess(Tail(a), Tail(b))
    ELSE Code(Head(a)) < Code(Head(b))

\* ----------------------------------------------------------------- devices
devicesToTest ==
    << << "i", "P", "h", "o", "n", "e", " ", "S", "E" >>,
       << "i", "P", "h", "o", "n", "e", " ", "1", "3", " ", "P", "r", "o" >>,
       << "i", "P", "h", "o", "n", "e", " ", "1", "4", " ", "P", "r", "o", " ", "M", "a", "x" >>,
       << "P", "i", "x", "e", "l", " ", "5" >>,
       << "G", "a", "l", "a", "x", "y", " ", "S", "9", "+" >>,
       << "G", "a", "l", "a", "x", "y", " ", "S", "2", "4" >> >>

Min(a, b) == IF a <= b THEN a ELSE b

\* The devices a run of the model visits.
Devices == SubSeq(devicesToTest, 1, Min(MaxDevices, Len(devicesToTest)))

\* --------------------------------------------------------------- scenarios
\* JavaScript's null.
Null == "<null>"

\* testScenarios of the mint-form scripts.  The redirect script's table has no
\* expectedErrorText field; it reads name, email and expectError only.
testScenarios ==
    << [name |-> "already-used-email", email |-> "test@example.com",
        expectError |-> TRUE, expectedErrorText |-> "You already have this collectible"],
       [name |-> "bad-format-email", email |-> "notanemail",
        expectError |-> TRUE, expectedErrorText |-> "Wrong format"],
       [name |-> "invalid-eth", email |-> "0xfmifeo",
        expectError |-> TRUE, expectedErrorText |-> "valid ETH"],
       [name |-> "invalid-ens", email |-> "cuchipando..eth",
        expectError |-> TRUE, expectedErrorText |-> "valid ENS"],
       [name |-> "valid-unique-email", email |-> Null,
        expectError |-> FALSE, expectedErrorText |-> Null] >>

\* The scenarios a run of the model replays, in table order.
Scenarios ==
    SubSeq(testScenarios,
           Len(testScenarios) - Min(MaxScenarios, Len(testScenarios)) + 1,
           Len(testScenarios))

originalUrl == "https://mint.poap.studio/version-72bms/index-20/customdemoflow05"

\* Where the form may send the browser after a submit.
RedirectUrl == "https://mint.poap.studio/version-72bms/index-20/collected"

\* ------------------------------------------------------- messages and paths
\* A message: a template and the value interpolated into it (a sequence of
\* strings, empty when the message is a literal).
Text(s) == [fmt |-> s, arg |-> << >>]
Fmt(f, a) == [fmt |-> f, arg |-> a]

\* error.message of what the automation library, fs or the page may throw.
ErrMsgs == {"Timeout 30000ms exceeded"}

\* `${dir}${deviceFilename}-${name}${suffix}`
ShotPath(dir, device, name, suffix) ==
    [dir |-> dir, device |-> device, name |-> name, suffix |-> suffix]

\* The names the library gives the video files it records: hexadecimal
\* identifiers, a new one for every page.
RawVideoNames ==
    << << "a", "7" >> \o WebmSuffix,
       << "3", "e" >> \o WebmSuffix,
       << "f", "0" >> \o WebmSuffix,
       << "5", "c" >> \o WebmSuffix >>

\* The elements of a sequence.
Range(seq) == {seq[i] : i \in 1..Len(seq)}

\* ------------------------------------------------------ JavaScript objects
\* An object is the sequence of its properties in insertion order.
Keys(obj) == [i \in 1..Len(obj) |-> obj[i].k]
Has(obj, key) == \E i \in 1..Len(obj) : obj[i].k = key
Get(obj, key) == obj[CHOOSE i \in 1..Len(obj) : obj[i].k = key].v

\* obj[key] = value
SetKey(obj, key, value) ==
    IF Has(obj, key)
    THEN [i \in 1..Len(obj) |-> IF obj[i].k = key THEN [k |-> key, v |-> value] ELSE obj[i]]
    ELSE Append(obj, [k |-> key, v |-> value])

\* JavaScript's undefined.
Undefined == "<undefined>"

\* ------------------------------------------------------------------- state
VARIABLES
    script,       \* the script that runs
    pc,           \* the statement the script is at
    browser,      \* "none", "open" or "closed"
    di,           \* index of the device of the current iteration
    si,           \* index of the scenario of the current iteration
    testResults,  \* the results object: device name -> key -> value
    writes,       \* <<device name, key>> -> how often testResults[device][key] was assigned
    contexts,     \* indexes of the devices whose browsing context is open
    videoDir,     \* video directory: file name -> index of the device whose context recorded it
    pageUrl,      \* URL of the page since the scenario's goto
    pageTexts,    \* texts visible on the page since the scenario's submit
    redirected,   \* the local `redirected` of the redirect script
    caught,       \* the catch sites inside the scenario's try block that caught an
                  \* exception of the current scenario
    crashed,      \* the messages of the exceptions no try block caught
    resultsFile,  \* what was written to the results file, write by write
    console,      \* the verdict lines the single-run script printed, in order
    loop,         \* the selector-fallback loop that runs, or Null
    ci,           \* index of the loop's current candidate
    flag,         \* the loop's success flag (clicked, startClicked, inputFound)
    seen,         \* the candidates isVisible() answered true for
    acted         \* the candidates the loop's action was invoked on, in order,
                  \* each with whether the call returned

vars ==
    << script, pc, browser, di, si, testResults, writes, contexts, videoDir,
       pageUrl, pageTexts, redirected, caught, crashed, resultsFile,
       console, loop, ci, flag, seen, acted >>

\* Groups of variables, for the UNCHANGED clauses.
runVars == << script, browser, crashed, resultsFile >>
loopVars == << di, si >>
resultVars == << testResults, writes >>
libVars == << contexts, videoDir >>
localVars == << pageUrl, pageTexts, redirected, caught >>
fallbackVars == << loop, ci, flag, seen, acted >>

\* The multi-device mint-form scripts: the redirect-based and the text-based one.
FormScripts == {"redirect", "text"}
MultiDeviceScripts == FormScripts

\* The single-run mint-form script.
SingleRunScripts == {"single"}

\* The passport scripts: the navigation script and the validation script.
PassportScripts == {"passportNav", "passportValidation", "passportComplete"}

deviceName == Devices[di]
deviceFilename == deviceToFilename(deviceName)
scenario == Scenarios[si]

BlankUrl == "about:blank"

\* testResults[deviceName][key] = value
Record(key, value) ==
    /\ testResults' =
        SetKey(testResults, deviceName, SetKey(Get(testResults, deviceName), key, value))
    /\ writes' =
        LET k == << deviceName, key >>
        IN  (k :> (IF k \in DOMAIN writes THEN writes[k] + 1 ELSE 1)) @@ writes

\* The locals of one scenario, out of scope between scenarios.
ResetLocals ==
    /\ pageUrl' = BlankUrl
    /\ pageTexts' = {}
    /\ redirected' = FALSE
    /\ caught' = {}

\* No selector-fallback loop runs.
NoLoop ==
    /\ loop = Null
    /\ ci = 1
    /\ flag = FALSE
    /\ seen = {}
    /\ acted = << >>

Init ==
    /\ script \in MultiDeviceScripts \cup SingleRunScripts
    /\ pc = "launch"
    /\ browser = "none"
    /\ di = 1
    /\ si = 1
    /\ testResults = << >>
    /\ writes = << >>
    /\ contexts = {}
    /\ videoDir = << >>
    /\ pageUrl = BlankUrl
    /\ pageTexts = {}
    /\ redirected = FALSE
    /\ caught = {}
    /\ crashed = << >>
    /\ resultsFile = << >>
    /\ console = << >>
    /\ NoLoop

\* An exception outside every try block: the async function's promise rejects
\* and the script ends there.
Unhandled(m) ==
    /\ crashed' = Append(crashed, m)
    /\ pc' = "crashed"

\* const browser = await chromium.launch({...})
Launch ==
    /\ pc = "launch"
    /\ \/ /\ browser' = "open"
          /\ pc' = IF script \in SingleRunScripts THEN "singleNewPage" ELSE "mkdir"
          /\ UNCHANGED crashed
       \/ /\ \E m \in ErrMsgs : Unhandled(Text(m))
          /\ UNCHANGED browser
    /\ UNCHANGED << script, resultsFile, console, fallbackVars, loopVars, resultVars, libVars, localVars >>

\* await fs.mkdir(videos); await fs.mkdir(screenshots)
Mkdir ==
    /\ pc = "mkdir"
    /\ \/ /\ pc' = "deviceLoop"
          /\ UNCHANGED crashed
       \/ \E m \in ErrMsgs : Unhandled(Text(m))
    /\ UNCHANGED << script, browser, resultsFile, console, fallbackVars, loopVars, resultVars, libVars, localVars >>

\* A device loop that puts the device's entry in front of the earlier ones.
DeviceLoopPrepends ==
    /\ pc = "deviceLoop"
    /\ \/ /\ di <= Len(Devices)
          /\ testResults' = << [k |-> deviceName, v |-> << >>] >> \o testResults
          /\ pc' = "newContext"
       \/ /\ di > Len(Devices)
          /\ pc' = "browserClose"
          /\ UNCHANGED testResults
    /\ UNCHANGED << runVars, console, fallbackVars, loopVars, writes, libVars, localVars >>

\* for (const deviceName of devicesToTest) { testResults[deviceName] = {}; try {
DeviceLoop ==
    /\ pc = "deviceLoop"
    /\ \/ /\ di <= Len(Devices)
          /\ testResults' = SetKey(testResults, deviceName, << >>)
          /\ pc' = "newContext"
       \/ /\ di > Len(Devices)
          /\ pc' = "browserClose"
          /\ UNCHANGED testResults
    /\ UNCHANGED << runVars, console, fallbackVars, loopVars, writes, libVars, localVars >>

\* A device-level catch that ends the sweep instead of going on with the next
\* device.
DeviceCatchEndsSweep(m) ==
    /\ Record("error", m)
    /\ di' = di
    /\ si' = 1
    /\ pc' = "browserClose"
    /\ ResetLocals

\* A device catch block that replaces the device's results by the error.
DeviceCatchReplaces(m) ==
    /\ testResults' = SetKey(testResults, deviceName, << [k |-> "error", v |-> m] >>)
    /\ writes' =
        LET k == << deviceName, "error" >>
        IN  (k :> (IF k \in DOMAIN writes THEN writes[k] + 1 ELSE 1)) @@ writes
    /\ di' = di + 1
    /\ si' = 1
    /\ pc' = "deviceLoop"
    /\ ResetLocals

\* } catch (error) { testResults[deviceName].error = error.message; }  and the
\* loop goes on with the next device.  Sets resultVars, loopVars, localVars.
DeviceCatch(m) ==
    /\ Record("error", m)
    /\ di' = di + 1
    /\ si' = 1
    /\ pc' = "deviceLoop"
    /\ ResetLocals

\* What reading deviceConfig.viewport of an undefined deviceConfig throws.
ViewportTypeError == Text("Cannot read properties of undefined (reading 'viewport')")

\* new Error(`Device "${deviceName}" not found in Playwright devices`)
DeviceNotFound == Fmt("Device \"%s\" not found in Playwright devices", deviceName)

\* The message of the device-level failure for a device the library's table
\* does not know: the redirect script has no check and fails on
\* deviceConfig.viewport; the other scripts throw their own Error.
MissingProfileMessage ==
    IF script = "redirect" THEN ViewportTypeError ELSE DeviceNotFound

\* const deviceConfig = devices[deviceName]; ... await browser.newContext({...})
NewContext ==
    /\ pc = "newContext"
    /\ \/ /\ DeviceCatch(MissingProfileMessage)
          /\ UNCHANGED contexts
       \/ /\ \E m \in ErrMsgs : DeviceCatch(Text(m))
          /\ UNCHANGED contexts
       \/ /\ contexts' = contexts \cup {di}
          /\ pc' = "newPage"
          /\ UNCHANGED << loopVars, resultVars, localVars >>
    /\ UNCHANGED << runVars, console, fallbackVars, videoDir >>

\* await context.addInitScript(...); const page = await context.newPage();
\* the context starts to record the page's video into a file of its own.
NewPage ==
    /\ pc = "newPage"
    /\ \/ /\ \E m \in ErrMsgs : DeviceCatch(Text(m))
          /\ UNCHANGED videoDir
       \/ /\ videoDir' = (RawVideoNames[di] :> di) @@ videoDir
          /\ pc' = "scenarioLoop"
          /\ UNCHANGED << loopVars, resultVars, localVars >>
    /\ UNCHANGED << runVars, console, fallbackVars, contexts >>

\* ------------------------------------------------ the mint-form scenarios
\* A scenario catch that records the exception as a failed verdict.
ScenarioCatchAsFail(m) ==
    /\ Record(scenario.name, [status |-> "fail", message |-> m])
    /\ pc' = "interWait"

\* A scenario catch that records the status alone.
ScenarioCatchStatusOnly(m) ==
    /\ Record(scenario.name, [status |-> "error"])
    /\ pc' = "interWait"

\* } catch (error) { testResults[deviceName][scenario.name] =
\*                     { status: 'error', message: error.message }; }
\* Sets resultVars and pc.
ScenarioCatch(m) ==
    /\ Record(scenario.name, [status |-> "error", message |-> m])
    /\ pc' = "interWait"

\* One or more awaited calls inside the scenario's try block that change no
\* variable of the script: all return, or one of them throws.
PlainStep(here, next) ==
    /\ pc = here
    /\ \/ /\ pc' = next
          /\ UNCHANGED resultVars
       \/ \E m \in ErrMsgs : ScenarioCatch(Text(m))
    /\ UNCHANGED << runVars, console, fallbackVars, loopVars, libVars, localVars >>

\* for (let i = 0; i < testScenarios.length; i++) { ... try {
ScenarioLoop ==
    /\ pc = "scenarioLoop"
    /\ script \in FormScripts
    /\ \/ /\ si <= Len(Scenarios)
          /\ pc' = "goto"
       \/ /\ si > Len(Scenarios)
          /\ pc' = "closeContext"
    /\ UNCHANGED << runVars, console, fallbackVars, loopVars, resultVars, libVars, localVars >>

\* await page.goto(originalUrl, ...); await page.waitForTimeout(2000)
Navigate ==
    /\ pc = "goto"
    /\ \/ /\ pageUrl' = originalUrl
          /\ pc' = "openForm"
          /\ UNCHANGED resultVars
       \/ /\ \E m \in ErrMsgs : ScenarioCatch(Text(m))
          /\ UNCHANGED pageUrl
    /\ UNCHANGED << runVars, console, fallbackVars, loopVars, libVars, pageTexts, redirected, caught >>

\* await page.click('text="I want this"'); await page.waitForTimeout(1500)
OpenForm == PlainStep("openForm", "fillIdentity")

\* await page.fill(name ...); await page.fill(lastname ...); await page.fill(address ...)
FillIdentity == PlainStep("fillIdentity", "dropdown")

\* The dropdown: two clicks; when one throws, selectOption on the <select>;
\* when that throws too, a warning is logged and the scenario goes on.
SelectDropdown ==
    /\ pc = "dropdown"
    /\ pc' = "fillField"
    /\ \/ UNCHANGED caught
       \/ caught' = caught \cup {"dropdown"}
    /\ UNCHANGED << runVars, console, fallbackVars, loopVars, resultVars, libVars, pageUrl, pageTexts, redirected >>

\* await page.fill(email ..., emailToUse); await page.waitForTimeout(500)
FillField == PlainStep("fillField", "submit")

\* What the page may show after the submit.
PageTextPool == {"Custom Demo Flow", "Wrong format", "You must use a valid ENS"}

\* await testButton.waitFor(...); await page.waitForTimeout(500);
\* await testButton.click(); and, in the text script, await page.waitForTimeout(5000).
\* The page answers the click: it may redirect, and it may show texts.
Submit ==
    /\ pc = "submit"
    /\ \/ /\ pageUrl' \in {originalUrl, RedirectUrl}
          /\ pageTexts' \in SUBSET PageTextPool
          /\ pc' = IF script = "redirect" THEN "waitForURL" ELSE "verdict"
          /\ UNCHANGED resultVars
       \/ /\ \E m \in ErrMsgs : ScenarioCatch(Text(m))
          /\ UNCHANGED << pageUrl, pageTexts >>
    /\ UNCHANGED << runVars, console, fallbackVars, loopVars, libVars, redirected, caught >>

\* The value the library hands to a waitForURL predicate: a URL object.
UrlObject(href) == [type |-> "object", href |-> href]
StringValue(str) == [type |-> "string", str |-> str]

\* a !== b: values of different types are never strictly equal.
StrictNotEqual(a, b) == a.type # b.type \/ a # b

\* The predicate of the redirect wait: url => url !== originalUrl
UrlPredicate(url) == StrictNotEqual(url, StringValue(originalUrl))

\* try { await page.waitForURL(url => url !== originalUrl, { timeout: 10000 });
\*       redirected = true; } catch (error) { redirected = false; }
\* The wait returns once the predicate holds of the page's URL; it throws when
\* the predicate did not hold for the whole timeout, or when the page fails.
\* The page may redirect while the script waits.
WaitForURL ==
    /\ pc = "waitForURL"
    /\ pageUrl' \in {pageUrl, RedirectUrl}
    /\ \/ /\ UrlPredicate(UrlObject(pageUrl'))
          /\ redirected' = TRUE
          /\ UNCHANGED caught
       \/ /\ redirected' = FALSE
          /\ caught' = caught \cup {"waitForURL"}
    /\ pc' = "verdict"
    /\ UNCHANGED << runVars, console, fallbackVars, loopVars, resultVars, libVars, pageTexts >>

\* ------------------------------------------------------------ the verdicts
ScreenshotDir == "./screenshots/"

\* The verdict of the redirect script for one scenario: the outcome it stores,
\* and whether an awaited call (a screenshot, a pause) stands between the
\* decision and the assignment.
RedirectVerdict(sc, redir, currentUrl, device) ==
    IF sc.expectError
    THEN IF ~redir /\ currentUrl = originalUrl
         THEN [outcome |-> [status |-> "pass",
                            message |-> Text("Error detected as expected (form did not redirect)"),
                            screenshot |-> ShotPath(ScreenshotDir, device, sc.name, ".png")],
               awaits |-> TRUE, loadState |-> FALSE]
         ELSE [outcome |-> [status |-> "fail",
                            message |-> Text("Form redirected when it should have shown an error")],
               awaits |-> FALSE, loadState |-> FALSE]
    ELSE IF redir
         THEN [outcome |-> [status |-> "pass",
                            message |-> Text("Form submitted successfully and redirected"),
                            redirectUrl |-> currentUrl],
               awaits |-> TRUE, loadState |-> TRUE]
         ELSE [outcome |-> [status |-> "fail",
                            message |-> Text("Form did not redirect when it should have succeeded"),
                            screenshot |-> ShotPath(ScreenshotDir, device, sc.name,
                                                    "-unexpected-error.png")],
               awaits |-> TRUE, loadState |-> FALSE]

successTexts ==
    << "CONGRATULATIONS", "Congratulations", "You have just collected",
       "Custom Demo Flow", "Show Details" >>

errorTexts ==
    << "You already have this collectible", "Wrong format", "valid ETH", "valid ENS",
       "must use a valid", "Invalid", "Error" >>

\* The pairs <<text, phrase>> of a page text and a different phrase it contains.
Substrings ==
    { << "You must use a valid ENS", "valid ENS" >>,
      << "You must use a valid ENS", "must use a valid" >> }

\* The partial match of a text*= locator.
Contains(text, phrase) == text = phrase \/ << text, phrase >> \in Substrings

\* The first entry of `list` that is in the set `visible`, or Null: the loops
\* `for (const t of list) if (await locator(t).isVisible()...) { found = t; break; }`
FirstVisible(list, visible) ==
    IF \E i \in 1..Len(list) : list[i] \in visible
    THEN list[CHOOSE i \in 1..Len(list) :
                /\ list[i] \in visible
                /\ \A j \in 1..(i - 1) : list[j] \notin visible]
    ELSE Null

\* foundSuccessMessage: the first success text an element shows exactly.
FoundSuccessMessage(texts) ==
    FirstVisible(successTexts, texts)

\* The first error phrase some visible element contains.
FoundErrorPhrase(texts) ==
    FirstVisible(errorTexts, {p \in Range(errorTexts) : \E t \in texts : Contains(t, p)})

\* foundErrorMessage = fullText || errorText, where fullText is the element's
\* textContent(), or errorText when reading it throws.
FoundErrorMessage(texts, textContentOk) ==
    LET errorText == FoundErrorPhrase(texts)
    IN  IF errorText = Null THEN Null
        ELSE IF textContentOk THEN CHOOSE t \in texts : Contains(t, errorText)
        ELSE errorText

\* A ladder with a case that is neither pass nor fail: nothing was observed.
TextVerdictWithGap(sc, foundSuccessMessage, foundErrorMessage, currentUrl, device) ==
    IF foundSuccessMessage = Null /\ foundErrorMessage = Null /\ currentUrl = originalUrl
    THEN [outcome |-> [status |-> "inconclusive",
                       message |-> Text("Form did not show success or redirect")],
          awaits |-> FALSE, loadState |-> FALSE]
    ELSE RedirectVerdict(sc, currentUrl # originalUrl, currentUrl, device)

\* The verdict of the text script for one scenario.
TextVerdict(sc, foundSuccessMessage, foundErrorMessage, currentUrl, device) ==
    LET redir == currentUrl # originalUrl
    IN  IF sc.expectError
        THEN IF foundErrorMessage # Null
             THEN [outcome |-> [status |-> "pass",
                                message |-> Fmt("Error detected: %s", << foundErrorMessage >>),
                                screenshot |-> ShotPath(ScreenshotDir, device, sc.name, ".png"),
                                errorMessage |-> foundErrorMessage],
                   awaits |-> TRUE, loadState |-> FALSE]
             ELSE IF foundSuccessMessage # Null
             THEN [outcome |-> [status |-> "fail",
                                message |-> Fmt("Form succeeded when it should have shown an error. Success message: %s",
                                                << foundSuccessMessage >>)],
                   awaits |-> FALSE, loadState |-> FALSE]
             ELSE IF ~redir
             THEN [outcome |-> [status |-> "pass",
                                message |-> Text("Form did not redirect (error assumed)"),
                                screenshot |-> ShotPath(ScreenshotDir, device, sc.name, ".png")],
                   awaits |-> TRUE, loadState |-> FALSE]
             ELSE [outcome |-> [status |-> "fail",
                                message |-> Text("Form redirected when it should have shown an error"),
                                redirectUrl |-> currentUrl],
                   awaits |-> FALSE, loadState |-> FALSE]
        ELSE IF foundSuccessMessage # Null /\ foundErrorMessage = Null
             THEN [outcome |-> [status |-> "pass",
                                message |-> Fmt("Form submitted successfully. Success message: %s",
                                                << foundSuccessMessage >>),
                                successMessage |-> foundSuccessMessage,
                                currentUrl |-> currentUrl],
                   awaits |-> TRUE, loadState |-> TRUE]
             ELSE IF redir /\ foundErrorMessage = Null
             THEN [outcome |-> [status |-> "pass",
                                message |-> Text("Form submitted successfully and redirected"),
                                redirectUrl |-> currentUrl],
                   awaits |-> TRUE, loadState |-> TRUE]
             ELSE [outcome |-> [status |-> "fail",
                                message |-> IF foundErrorMessage # Null
                                            THEN Fmt("Unexpected error: %s", << foundErrorMessage >>)
                                            ELSE Text("Form did not show success or redirect"),
                                screenshot |-> ShotPath(ScreenshotDir, device, sc.name,
                                                        "-unexpected-error.png"),
                                errorMessage |-> foundErrorMessage],
                   awaits |-> TRUE, loadState |-> FALSE]

\* The checks after the submit and the verdict: const currentUrl = page.url(),
\* the success and error text loops of the text script, the if/else ladder,
\* and the assignment of the outcome.  A screenshot or a pause of the chosen
\* branch may throw before the assignment; a failing waitForLoadState is
\* swallowed by its .catch(() => {}).
Verdict ==
    /\ pc = "verdict"
    /\ \E textContentOk \in BOOLEAN :
        LET v == IF script = "redirect"
                 THEN RedirectVerdict(scenario, redirected, pageUrl, deviceFilename)
                 ELSE TextVerdict(scenario, FoundSuccessMessage(pageTexts),
                                  FoundErrorMessage(pageTexts, textContentOk),
                                  pageUrl, deviceFilename)
        IN  \/ /\ Record(scenario.name, v.outcome)
               /\ pc' = "interWait"
               /\ \/ UNCHANGED caught
                  \/ /\ v.loadState
                     /\ caught' = caught \cup {"loadState"}
            \/ /\ v.awaits
               /\ \E m \in ErrMsgs : ScenarioCatch(Text(m))
               /\ UNCHANGED caught
    /\ UNCHANGED << runVars, console, fallbackVars, loopVars, libVars, pageUrl, pageTexts, redirected >>

\* A loop that does not step to the next scenario after the pause.
InterWaitRepeats ==
    /\ pc = "interWait"
    /\ \/ /\ si' = si
          /\ pc' = "scenarioLoop"
          /\ ResetLocals
          /\ UNCHANGED << di, resultVars >>
       \/ \E m \in ErrMsgs : DeviceCatch(Text(m))
    /\ UNCHANGED << runVars, console, fallbackVars, libVars >>

\* await page.waitForTimeout(2000) after the scenario's try/catch, and i++.
InterWait ==
    /\ pc = "interWait"
    /\ \/ /\ si' = si + 1
          /\ pc' = "scenarioLoop"
          /\ ResetLocals
          /\ UNCHANGED << di, resultVars >>
       \/ \E m \in ErrMsgs : DeviceCatch(Text(m))
    /\ UNCHANGED << runVars, console, fallbackVars, libVars >>

\* ------------------------------------------------- the end of a device sweep
\* await page.close(); await context.close()
CloseContext ==
    /\ pc = "closeContext"
    /\ \/ /\ contexts' = contexts \ {di}
          /\ pc' = "rename"
          /\ UNCHANGED << loopVars, resultVars, localVars >>
       \/ /\ \E m \in ErrMsgs : DeviceCatch(Text(m))
          /\ UNCHANGED contexts
    /\ UNCHANGED << runVars, console, fallbackVars, videoDir >>

\* The empty name: what .pop() of an empty list gives counts as no file.
NoFile == << >>

\* `${deviceFilename}-${formattedDate}.webm`
newVideoName == deviceFilename \o << "-" >> \o getFormattedDate \o WebmSuffix

\* const files = await fs.readdir(videoDir);
\* const latestVideo = files.filter(f => f.endsWith('.webm')).sort().pop();
latestVideo ==
    LET webm == {f \in DOMAIN videoDir : EndsWith(f, WebmSuffix)}
    IN  IF webm = {} THEN NoFile
        ELSE CHOOSE f \in webm : \A g \in webm : g = f \/ StrLess(g, f)

\* fs.rename(from, to): the file is known under the new name only; a file that
\* had that name is replaced.
RenameFile(dir, from, to) ==
    [f \in (DOMAIN dir \ {from}) \cup {to} |-> IF f = to THEN dir[from] ELSE dir[f]]

\* The rename of the device's video, the end of the device's try block, and
\* the step to the next device.
RenameVideo ==
    /\ pc = "rename"
    /\ \/ /\ \E m \in ErrMsgs : DeviceCatch(Text(m))
          /\ UNCHANGED videoDir
       \/ /\ videoDir' = IF latestVideo # NoFile
                         THEN RenameFile(videoDir, latestVideo, newVideoName)
                         ELSE videoDir
          /\ di' = di + 1
          /\ si' = 1
          /\ pc' = "deviceLoop"
          /\ UNCHANGED << resultVars, localVars >>
    /\ UNCHANGED << runVars, console, fallbackVars, contexts >>

\* await browser.close(), after the device loop and outside every try block;
\* closing the browser closes the contexts that are still open.
BrowserClose ==
    /\ pc = "browserClose"
    /\ \/ /\ browser' = "closed"
          /\ contexts' = {}
          /\ pc' = "writeFile"
          /\ UNCHANGED crashed
       \/ /\ \E m \in ErrMsgs : Unhandled(Text(m))
          /\ UNCHANGED << browser, contexts >>
    /\ UNCHANGED << script, resultsFile, console, fallbackVars, loopVars, resultVars, videoDir, localVars >>

\* The fields of an outcome whose values are strings.
StringFields == {"status", "errorMessage", "successMessage", "currentUrl", "redirectUrl"}

\* The JSON texts of a string and of null.
JsonString(s) == [json |-> "string", value |-> s]
JsonNull == [json |-> "null"]

\* An outcome serialized with null treated like undefined.
StringifyOutcomeDropsNull(o) ==
    LET kept == {f \in DOMAIN o : ~(f \in StringFields /\ o[f] \in {Undefined, Null})}
    IN  [f \in kept |-> JsonString(o[f])]

\* JSON.stringify of an outcome: a property whose value is undefined is left
\* out, null is written as null, a string as a string.
StringifyOutcome(o) ==
    LET kept == {f \in DOMAIN o : ~(f \in StringFields /\ o[f] = Undefined)}
    IN  [f \in kept |->
            IF f \in StringFields /\ o[f] = Null THEN JsonNull ELSE JsonString(o[f])]

\* JSON.stringify of testResults[device]: the error message is a string, every
\* other property an outcome.
StringifyDevice(obj) ==
    [i \in 1..Len(obj) |->
        [k |-> obj[i].k,
         v |-> IF obj[i].k = "error" THEN JsonString(obj[i].v)
               ELSE StringifyOutcome(obj[i].v)]]

\* JSON.stringify(testResults, null, 2)
JsonStringify(results) ==
    [i \in 1..Len(results) |-> [k |-> results[i].k, v |-> StringifyDevice(results[i].v)]]

\* JSON.parse of the text of a string or of null.
ParseValue(j) == IF j.json = "null" THEN Null ELSE j.value

\* JSON.parse of the text of an outcome.
ParseOutcome(j) == [f \in DOMAIN j |-> ParseValue(j[f])]

\* JSON.parse of the text of testResults[device].
ParseDevice(members) ==
    [i \in 1..Len(members) |->
        [k |-> members[i].k,
         v |-> IF members[i].k = "error" THEN ParseValue(members[i].v)
               ELSE ParseOutcome(members[i].v)]]

\* JSON.parse of the results file: the properties come back in the order of
\* the text.
JsonParse(file) ==
    [i \in 1..Len(file) |-> [k |-> file[i].k, v |-> ParseDevice(file[i].v)]]

\* await fs.writeFile(resultsPath, JSON.stringify(testResults, null, 2))
WriteFile ==
    /\ pc = "writeFile"
    /\ \/ /\ resultsFile' = Append(resultsFile, JsonStringify(testResults))
          /\ pc' = "done"
          /\ UNCHANGED crashed
       \/ /\ \E m \in ErrMsgs : Unhandled(Text(m))
          /\ UNCHANGED resultsFile
    /\ UNCHANGED << script, browser, console, fallbackVars, loopVars, resultVars, libVars, localVars >>

\* ------------------------------------------------- the single-run script
\* The elements of the result page of the single-run script, by their text.
SinglePageTexts == {"Thank you", "Invalid email", "Error: registration not complete"}

successIndicators ==
    << "text=/success/i", "text=/thank/i", "text=/complete/i",
       "text=/congratulations/i", "[class*=\"success\"]", "[class*=\"confirmation\"]" >>

errorSelectors ==
    << "text=/error/i", "text=/fail/i", "text=/invalid/i",
       "[class*=\"error\"]", "[role=\"alert\"]" >>

\* The pairs <<text, selector>> of an element's text and a selector it matches.
SelectorMatches ==
    { << "Thank you", "text=/thank/i" >>,
      << "Invalid email", "text=/invalid/i" >>,
      << "Error: registration not complete", "text=/error/i" >>,
      << "Error: registration not complete", "text=/complete/i" >> }

\* await locator(selector).isVisible().catch(() => false)
SelectorVisible(texts, selector) ==
    \E t \in texts : << t, selector >> \in SelectorMatches

\* foundSuccess after the indicator loop and the URL check.
SingleFoundSuccess(texts, currentUrl) ==
    \/ FirstVisible(successIndicators,
                    {sel \in Range(successIndicators) : SelectorVisible(texts, sel)}) # Null
    \/ currentUrl # originalUrl

\* foundError after the error selector loop.
SingleFoundError(texts) ==
    \E i \in 1..Len(errorSelectors) : SelectorVisible(texts, errorSelectors[i])

\* A summary in which a success outranks an error.
SingleSummarySuccessFirst(foundSuccess, foundError) ==
    IF foundSuccess THEN "TEST PASSED"
    ELSE IF foundError THEN "TEST FAILED"
    ELSE "TEST UNCLEAR"

\* The line the final summary prints.
SingleSummary(foundSuccess, foundError) ==
    IF foundSuccess /\ ~foundError THEN "TEST PASSED"
    ELSE IF foundError THEN "TEST FAILED"
    ELSE "TEST UNCLEAR"

\* } catch (error) { console.error('TEST FAILED WITH ERROR:', error.message);
\*                   await page.screenshot(...); ... }
\* `printed` is what the try block printed before it threw.  When the
\* screenshot of the catch block throws, that exception is rethrown after the
\* finally block.
SingleCatch(printed, m) ==
    /\ console' = printed \o << "TEST FAILED WITH ERROR" >>
    /\ crashed' \in {crashed, Append(crashed, m)}
    /\ pc' = "singleFinally"

\* const page = await browser.newPage(), before the try block.
SingleNewPage ==
    /\ pc = "singleNewPage"
    /\ \/ /\ pc' = "singleForm"
          /\ UNCHANGED crashed
       \/ \E m \in ErrMsgs : Unhandled(Text(m))
    /\ UNCHANGED << script, browser, resultsFile, console, fallbackVars, loopVars,
                    resultVars, libVars, localVars >>

\* goto, the click on "I want this", the fills, the dropdown (with its own
\* try/catch), the first screenshot, the click on Test and the second
\* screenshot.  The page answers the click.
SingleForm ==
    /\ pc = "singleForm"
    /\ \/ /\ pageUrl' \in {originalUrl, RedirectUrl}
          /\ pageTexts' \in SUBSET SinglePageTexts
          /\ pc' = "singleWait"
          /\ UNCHANGED << console, crashed >>
       \/ /\ \E m \in ErrMsgs : SingleCatch(console, Text(m))
          /\ UNCHANGED << pageUrl, pageTexts >>
    /\ UNCHANGED << script, browser, resultsFile, fallbackVars, loopVars, resultVars,
                    libVars, redirected, caught >>

\* The redirect wait with its own try/catch, waitForLoadState with its .catch,
\* the pause, and the screenshots 3 to 6 with their pauses.
SingleWait ==
    /\ pc = "singleWait"
    /\ \/ /\ pc' = "singleVerify"
          /\ UNCHANGED << console, crashed >>
       \/ \E m \in ErrMsgs : SingleCatch(console, Text(m))
    /\ UNCHANGED << script, browser, resultsFile, fallbackVars, loopVars, resultVars,
                    libVars, localVars >>

\* The verification: the success indicators, the URL check, the error
\* selectors, the summary and the last pause.  textContent() of a visible
\* element may throw; so may the pause after the summary.
SingleVerify ==
    /\ pc = "singleVerify"
    /\ LET foundSuccess == SingleFoundSuccess(pageTexts, pageUrl)
           foundError == SingleFoundError(pageTexts)
           reads == \E sel \in Range(successIndicators) \cup Range(errorSelectors) :
                        SelectorVisible(pageTexts, sel)
           printed == Append(console, SingleSummary(foundSuccess, foundError))
       IN  \/ /\ console' = printed
              /\ pc' = "singleFinally"
              /\ UNCHANGED crashed
           \/ /\ reads
              /\ \E m \in ErrMsgs : SingleCatch(console, Text(m))
           \/ \E m \in ErrMsgs : SingleCatch(printed, Text(m))
    /\ UNCHANGED << script, browser, resultsFile, fallbackVars, loopVars, resultVars,
                    libVars, localVars >>

\* } finally { await browser.close(); }
SingleFinally ==
    /\ pc = "singleFinally"
    /\ \/ /\ browser' = "closed"
          /\ pc' = IF crashed # << >> THEN "crashed" ELSE "done"
          /\ UNCHANGED crashed
       \/ /\ \E m \in ErrMsgs : Unhandled(Text(m))
          /\ UNCHANGED browser
    /\ UNCHANGED << script, resultsFile, console, fallbackVars, loopVars, resultVars,
                    libVars, localVars >>

\* ------------------------------------------------- the passport scripts
\* Of the passport scripts the model holds the first device's iteration of the
\* navigation script from the first validation to the end of its collectible
\* loop, and the selector-fallback loops of the validation script with the
\* statement that follows each.
BASE_URL == "https://passport.poap.studio/version-32bmw/collection/custom-demo-flow-1/welcome"
passportUrl == "https://passport.poap.studio/version-32bmw/collection/custom-demo-flow-1/collection"

\* Where a click on a collectible may send the browser.
CollectibleUrl == "https://passport.poap.studio/version-32bmw/collection/custom-demo-flow-1/collectible"

collectibleSelectors ==
    << "#collectible1", "[id*=\"collectible\"]",
       ".bubble-element.RepeatingGroup .group-item:first-child .clickable-element" >>

initialStartSelectors ==
    << "button:has-text(\"Start\")", "button:has-text(\"Get Started\")",
       "button:has-text(\"Begin\")", "a:has-text(\"Start\")",
       "[data-action=\"start\"]", "button" >>

inputSelectors ==
    << "input[type=\"email\"]", "input[placeholder*=\"email\" i]",
       "input[placeholder*=\"address\" i]", "input[type=\"text\"]", "input" >>

\* The candidates of the validation tests' input loop and submit loop, and of
\* the navigation script's benefit loop.
validationInputSelectors ==
    << "input[type=\"email\"]", "input[placeholder*=\"email\" i]",
       "input[placeholder*=\"ENS\" i]", "input[placeholder*=\"ETH\" i]",
       "input[placeholder*=\"address\" i]", "input[type=\"text\"]", "input" >>

submitSelectors ==
    << "button:has-text(\"Continue\")", "button:has-text(\"Next\")",
       "button:has-text(\"Submit\")", "button[type=\"submit\"]",
       "button:not(:has-text(\"Start\"))" >>

benefitSelectors == << "#benefit1", "[id*=\"benefit\"]" >>

validationScenarios ==
    << [name |-> "invalid-email", input |-> "not-an-email",
        expectError |-> TRUE, expectedErrorText |-> "valid email"],
       [name |-> "invalid-ens", input |-> "invalid..eth",
        expectError |-> TRUE, expectedErrorText |-> "valid ENS"],
       [name |-> "invalid-eth", input |-> "0xinvalid",
        expectError |-> TRUE, expectedErrorText |-> "valid"] >>

\* The selector-fallback loops of the model, and the candidates of each.
FallbackLoops ==
    {"collectible", "initialStart", "input", "validationInput", "submit", "benefit"}

\* The loops whose body stands in a try block with an empty or logging catch.
GuardedLoops == FallbackLoops \ {"benefit"}

Candidates(l) ==
    CASE l = "collectible" -> collectibleSelectors
      [] l = "initialStart" -> initialStartSelectors
      [] l = "input" -> inputSelectors
      [] l = "validationInput" -> validationInputSelectors
      [] l = "submit" -> submitSelectors
      [] l = "benefit" -> benefitSelectors

\* The outcomes the validation part leaves without an exception of the library.
ValidationOutcomes ==
    { [status |-> "fail", message |-> Text("Expected error message not found")],
      [status |-> "error", message |-> Text("Input field not found")] }

\* testResults[deviceName] = { validationTests: {}, navigationTest: {} } and the
\* outcomes of the validation part.
ValidationResults(outcomes) ==
    << [k |-> "validationTests",
        v |-> [i \in 1..Len(outcomes) |->
                  [k |-> validationScenarios[i].name, v |-> outcomes[i]]]],
       [k |-> "navigationTest", v |-> << >>] >>

\* let clicked = false; for (const selector of ...) {
EnterLoop(l) ==
    /\ loop' = l
    /\ ci' = 1
    /\ flag' = FALSE
    /\ seen' = {}
    /\ acted' = << >>
    /\ pc' = "loopHead"

\* The first device's context is open and records its video.
PassportDeviceOpen ==
    /\ browser = "open"
    /\ di = 1
    /\ si = 1
    /\ contexts = {1}
    /\ videoDir = (RawVideoNames[1] :> 1)
    /\ pageTexts = {}
    /\ redirected = FALSE
    /\ caught = {}
    /\ crashed = << >>
    /\ resultsFile = << >>
    /\ console = << >>
    /\ writes = << >>

\* The navigation script after the fill of the first wrong address; the
\* validation script at the head of its first initialStartSelectors loop, or at
\* the head of the inputSelectors loop of its navigation test.
PassportInit ==
    /\ script \in PassportScripts
    /\ PassportDeviceOpen
    /\ \/ /\ script = "passportNav"
          /\ pc = "validationEth"
          /\ pageUrl = BASE_URL
          /\ testResults = << [k |-> Devices[1], v |-> << >>] >>
          /\ NoLoop
       \/ /\ script = "passportValidation"
          /\ pc = "loopHead"
          /\ pageUrl = passportUrl
          /\ ci = 1
          /\ flag = FALSE
          /\ seen = {}
          /\ acted = << >>
          /\ \/ /\ loop = "initialStart"
                /\ testResults = << [k |-> Devices[1], v |-> ValidationResults(<< >>)] >>
             \/ /\ loop = "input"
                /\ \E outcomes \in [1..Len(validationScenarios) -> ValidationOutcomes] :
                      testResults = << [k |-> Devices[1], v |-> ValidationResults(outcomes)] >>
       \/ /\ script = "passportComplete"
          /\ pc = "completeStep"
          /\ pageUrl = passportUrl
          /\ NoLoop
          /\ \E outcomes \in [1..Len(validationScenarios) -> ValidationOutcomes] :
                testResults = << [k |-> Devices[1], v |-> ValidationResults(outcomes)] >>

\* connectButton.click(), the pause, the error locator's isVisible with its
\* .catch, textContent() and the pause of the visible case, and
\* testResults[deviceName][key] = 'pass' or 'fail'; then the steps up to the
\* next check.
\* pageTexts holds the inputs whose validation message the page shows: after
\* the click the application shows the message for the new input, shows none,
\* or leaves the page as it was.  The locator matches any such message.
ValidationStep(here, key, input, next) ==
    /\ pc = here
    /\ \/ /\ pageTexts' \in {pageTexts, {}, {input}}
          /\ Record(key, IF pageTexts' # {} THEN "pass" ELSE "fail")
          /\ pc' = next
          /\ UNCHANGED << loopVars, pageUrl, redirected, caught >>
       \/ \E m \in ErrMsgs : DeviceCatch(Text(m))
    /\ UNCHANGED << runVars, console, fallbackVars, libVars >>

\* The two wrong addresses of steps 2 and 3.
WrongEth == "cuchipandoeeee.eth"
WrongEns == "0x4444"

ValidationEth == ValidationStep("validationEth", "validation_eth", WrongEth, "validationEns")
ValidationEns == ValidationStep("validationEns", "validation_ens", WrongEns, "login")

\* The login: clear, fill, click, the pause, testResults[deviceName].login = 'pass'.
\* The application may open the collection page.
Login ==
    /\ pc = "login"
    /\ \/ /\ Record("login", "pass")
          /\ pageUrl' \in {BASE_URL, passportUrl}
          /\ pc' = "collection"
          /\ UNCHANGED << loopVars, pageTexts, redirected, caught >>
       \/ \E m \in ErrMsgs : DeviceCatch(Text(m))
    /\ UNCHANGED << runVars, console, fallbackVars, libVars >>

\* Step 5 up to the collectible loop: the pause and the two smoothScroll calls.
Collection ==
    /\ pc = "collection"
    /\ \/ /\ EnterLoop("collectible")
          /\ UNCHANGED << loopVars, resultVars, localVars >>
       \/ /\ \E m \in ErrMsgs : DeviceCatch(Text(m))
          /\ UNCHANGED fallbackVars
    /\ UNCHANGED << runVars, console, libVars >>

\* ------------------------------------------------- selector-fallback loops
\* A loop that acts on a candidate whatever isVisible answered.
AfterProbeActsAnyway(visible) == "act"

\* if (await element.isVisible(...)) { ... }: where the loop goes after the
\* answer of isVisible.
AfterProbe(visible) == IF visible THEN "act" ELSE "loopHead"

\* for (const selector of candidates) { const element = page.locator(selector).first();
\*   if (await element.isVisible({ timeout })) ...
\* isVisible answers true or false, or throws; the collectible loop turns a
\* throw into false with .catch(() => false), the other loops catch it and
\* `continue`.
FallbackProbe ==
    /\ pc = "loopHead"
    /\ loop \in FallbackLoops
    /\ ci <= Len(Candidates(loop))
    /\ \/ /\ seen' = seen \cup {ci}
          /\ pc' = AfterProbe(TRUE)
          /\ ci' = ci
       \/ /\ pc' = AfterProbe(FALSE)
          /\ ci' = IF pc' = "loopHead" THEN ci + 1 ELSE ci
          /\ UNCHANGED seen
    /\ UNCHANGED << runVars, console, loopVars, resultVars, libVars, localVars,
                    loop, flag, acted >>

\* The loop's candidates are used up.
FallbackExit ==
    /\ pc = "loopHead"
    /\ loop \in FallbackLoops
    /\ ci > Len(Candidates(loop))
    /\ pc' = "afterLoop"
    /\ UNCHANGED << runVars, console, loopVars, resultVars, libVars, localVars,
                    fallbackVars >>

\* await element.click() or await input.fill(value): the call returns, or it
\* throws.  Inside the loop's try block the catch block goes on with the next
\* candidate; the benefit loop has no try block and the exception reaches the
\* device's catch block.  A click may take the browser to another page.
FallbackAct ==
    /\ pc = "act"
    /\ \/ /\ acted' = Append(acted, [candidate |-> ci, returned |-> TRUE])
          /\ pageUrl' \in IF loop = "collectible" THEN {pageUrl, CollectibleUrl} ELSE {pageUrl}
          /\ pc' = "confirm"
          /\ ci' = ci
          /\ UNCHANGED << loopVars, resultVars, pageTexts, redirected, caught >>
       \/ /\ loop \in GuardedLoops
          /\ acted' = Append(acted, [candidate |-> ci, returned |-> FALSE])
          /\ pc' = "loopHead"
          /\ ci' = ci + 1
          /\ UNCHANGED << loopVars, resultVars, localVars >>
       \/ /\ loop = "benefit"
          /\ acted' = Append(acted, [candidate |-> ci, returned |-> FALSE])
          /\ ci' = ci
          /\ \E m \in ErrMsgs : DeviceCatch(Text(m))
    /\ UNCHANGED << runVars, console, libVars, loop, flag, seen >>

\* The rest of the loop body after the action.
\* initialStartSelectors, inputSelectors:
\*     flag = true; await page.waitForTimeout(...); break;
\* a throwing pause is caught and the loop goes on with the next candidate.
\* collectibleSelectors:
\*     await page.waitForTimeout(2000);
\*     if (page.url() !== '.../collection') { clicked = true; ...scrolls, the
\*       click on the back arrow...; break; }
\* an unchanged URL leaves the flag and goes on with the next candidate, and so
\* does an exception of the pauses, the scrolls or the click on the back arrow.
\* submitSelectors:
\*     submitClicked = true; console.log(...); break;
\* nothing is awaited between the click and the break.
\* benefitSelectors (no try block):
\*     await page.waitForTimeout(2000); ...scrolls, the click on the back
\*     button...; clicked = true; break;
\* an exception of these reaches the device's catch block.
FallbackConfirm ==
    /\ pc = "confirm"
    /\ \/ /\ loop \in {"initialStart", "input", "validationInput"}
          /\ flag' = TRUE
          /\ \/ /\ pc' = "afterLoop"
                /\ ci' = ci
             \/ /\ pc' = "loopHead"
                /\ ci' = ci + 1
          /\ UNCHANGED << loopVars, resultVars, localVars >>
       \/ /\ loop = "submit"
          /\ flag' = TRUE
          /\ pc' = "afterLoop"
          /\ ci' = ci
          /\ UNCHANGED << loopVars, resultVars, localVars >>
       \/ /\ loop = "collectible"
          /\ \/ /\ pc' = "loopHead"
                /\ ci' = ci + 1
                /\ UNCHANGED << flag, pageUrl >>
             \/ /\ pageUrl # passportUrl
                /\ flag' = TRUE
                /\ \/ /\ pc' = "afterLoop"
                      /\ ci' = ci
                      /\ pageUrl' = passportUrl
                   \/ /\ pc' = "loopHead"
                      /\ ci' = ci + 1
                      /\ pageUrl' \in {pageUrl, passportUrl}
          /\ UNCHANGED << loopVars, resultVars, pageTexts, redirected, caught >>
       \/ /\ loop = "benefit"
          /\ \/ /\ flag' = TRUE
                /\ pc' = "afterLoop"
                /\ ci' = ci
                /\ UNCHANGED << loopVars, resultVars, localVars >>
             \/ /\ \E m \in ErrMsgs : DeviceCatch(Text(m))
                /\ UNCHANGED << flag, ci >>
    /\ UNCHANGED << runVars, console, libVars, loop, seen, acted >>

\* testResults[deviceName].collection = clicked ? 'pass' : 'fail', and the
\* navigation script goes on to the Benefits page.
CollectionResult ==
    /\ pc = "afterLoop"
    /\ loop = "collectible"
    /\ Record("collection", IF flag THEN "pass" ELSE "fail")
    /\ pc' = "benefits"
    /\ UNCHANGED << runVars, console, loopVars, libVars, localVars, fallbackVars >>

\* Step 6 up to the benefit loop: the Benefits tab is not visible and the step
\* is skipped; or it is clicked, and after the pause and the two smoothScroll
\* calls the loop begins.
Benefits ==
    /\ pc = "benefits"
    /\ \/ /\ pc' = "hunt"
          /\ UNCHANGED << loopVars, resultVars, localVars, fallbackVars >>
       \/ /\ EnterLoop("benefit")
          /\ UNCHANGED << loopVars, resultVars, localVars >>
       \/ /\ \E m \in ErrMsgs : DeviceCatch(Text(m))
          /\ UNCHANGED fallbackVars
    /\ UNCHANGED << runVars, console, libVars >>

\* testResults[deviceName].benefits = clicked ? 'pass' : 'fail'
BenefitResult ==
    /\ pc = "afterLoop"
    /\ loop = "benefit"
    /\ Record("benefits", IF flag THEN "pass" ELSE "fail")
    /\ pc' = "hunt"
    /\ UNCHANGED << runVars, console, loopVars, libVars, localVars, fallbackVars >>

\* The validation scenarios a run of the model replays: the first MaxScenarios.
ValidationRun == SubSeq(validationScenarios, 1, Min(MaxScenarios, Len(validationScenarios)))

\* testResults[deviceName].validationTests[scenario.name] = outcome
RecordValidation(outcome) ==
    Record("validationTests",
           SetKey(Get(Get(testResults, deviceName), "validationTests"),
                  validationScenarios[si].name, outcome))

\* A step of the navigation script whose result is assigned inside its
\* if (await x.isVisible(...).catch(() => false)) { ... } blocks, with no else:
\* the blocks are entered and testResults[deviceName][key] = 'pass' is reached;
\* or an element is not visible and nothing is assigned; or a click, a pause or
\* a scroll throws into the device's catch block.
OptionalStep(here, key, next) ==
    /\ pc = here
    /\ \/ /\ Record(key, "pass")
          /\ pc' = next
          /\ UNCHANGED << loopVars, localVars >>
       \/ /\ pc' = next
          /\ UNCHANGED << loopVars, resultVars, localVars >>
       \/ \E m \in ErrMsgs : DeviceCatch(Text(m))
    /\ UNCHANGED << runVars, console, fallbackVars, libVars >>

\* Step 7: the Hunt tab, #hunt1, the Leaderboard tab; hunt = 'pass'.
Hunt == OptionalStep("hunt", "hunt", "leaderboard")

\* Step 8: the pause, the scroll, the optional See more button, the scroll to
\* the top; testResults[deviceName].leaderboard = 'pass'.
Leaderboard ==
    /\ pc = "leaderboard"
    /\ \/ /\ Record("leaderboard", "pass")
          /\ pc' = "scan"
          /\ UNCHANGED << loopVars, localVars >>
       \/ \E m \in ErrMsgs : DeviceCatch(Text(m))
    /\ UNCHANGED << runVars, console, fallbackVars, libVars >>

\* Step 9: #scanbutton, the screenshot, #backbuttonscan or Escape; scan = 'pass'.
Scan == OptionalStep("scan", "scan", "settings")

\* Step 10: #settingsbutton, Help, T&C, Privacy Policy, #signout;
\* settings = 'pass'.  Then the page and the context are closed.
Settings == OptionalStep("settings", "settings", "closeContext")

\* STEP 2 of a validation test: let inputFilled = false; for (const selector of
\* inputSelectors) {
ValidationInputLoop ==
    /\ pc = "inputLoop"
    /\ EnterLoop("validationInput")
    /\ UNCHANGED << runVars, console, loopVars, resultVars, libVars, localVars >>

\* An input check without `continue`: the error is recorded and the scenario
\* goes on to its submit loop.
ValidationInputLoopEndFallsThrough ==
    /\ pc = "afterLoop"
    /\ loop = "validationInput"
    /\ \/ /\ ~flag
          /\ RecordValidation([status |-> "error", message |-> Text("Input field not found")])
       \/ /\ flag
          /\ UNCHANGED resultVars
    /\ EnterLoop("submit")
    /\ UNCHANGED << runVars, console, loopVars, libVars, localVars >>

\* if (!inputFilled) { testResults[deviceName].validationTests[scenario.name] =
\*   { status: 'error', message: 'Input field not found' }; continue; }
\* and with the input filled the test goes on to its submit loop.
ValidationInputLoopEnd ==
    /\ pc = "afterLoop"
    /\ loop = "validationInput"
    /\ \/ /\ ~flag
          /\ RecordValidation([status |-> "error", message |-> Text("Input field not found")])
          /\ pc' = "nextValidation"
          /\ UNCHANGED fallbackVars
       \/ /\ flag
          /\ EnterLoop("submit")
          /\ UNCHANGED resultVars
    /\ UNCHANGED << runVars, console, loopVars, libVars, localVars >>

\* } catch (error) { testResults[deviceName].validationTests[scenario.name] =
\*                     { status: 'error', message: error.message }; }
\* and the pause after the try/catch follows.
ValidationCatch(m) ==
    /\ RecordValidation([status |-> "error", message |-> m])
    /\ pc' = "validationPause"

\* After the submit loop, whatever its flag: await page.waitForTimeout(3000).
SubmitLoopEnd ==
    /\ pc = "afterLoop"
    /\ loop = "submit"
    /\ \/ /\ pc' = "errorCheck"
          /\ UNCHANGED resultVars
       \/ \E m \in ErrMsgs : ValidationCatch(Text(m))
    /\ UNCHANGED << runVars, console, loopVars, libVars, localVars, fallbackVars >>

\* `./passport-screenshots/${deviceFilename}-${scenario.name}.png`
PassportShotDir == "./passport-screenshots/"

\* STEP 4: for (const keyword of errorKeywords) { try { if (visible) {
\*   errorText = await textContent(); foundError = true; await screenshot;
\*   validationTests[scenario.name] = { status: 'pass', ... }; break; } }
\*   catch (e) { continue; } }
\* if (!foundError) validationTests[scenario.name] = { status: 'fail', ... }
\* An element with a keyword is found and the pass is recorded; none is found
\* and the fail is recorded; or one is found and every screenshot throws, and
\* nothing is recorded.  The text of the element is not modelled.
ErrorCheck ==
    /\ pc = "errorCheck"
    /\ \/ RecordValidation(
              [status |-> "pass",
               message |-> Text("Error message detected: "),
               screenshot |-> ShotPath(PassportShotDir, deviceFilename,
                                       validationScenarios[si].name, ".png")])
       \/ RecordValidation([status |-> "fail",
                            message |-> Text("Expected error message not found")])
       \/ UNCHANGED resultVars
    /\ pc' = "validationPause"
    /\ UNCHANGED << runVars, console, loopVars, libVars, localVars, fallbackVars >>

\* await page.waitForTimeout(1000) after the scenario's try/catch.
ValidationPause ==
    /\ pc = "validationPause"
    /\ \/ /\ pc' = "nextValidation"
          /\ UNCHANGED << loopVars, resultVars, localVars >>
       \/ \E m \in ErrMsgs : DeviceCatch(Text(m))
    /\ UNCHANGED << runVars, console, libVars, fallbackVars >>

\* The next iteration of for (const scenario of validationScenarios): inside
\* its try block page.goto(passportUrl) and the pause, then the
\* initialStartSelectors loop; after the last scenario the navigation test.
NextValidation ==
    /\ pc = "nextValidation"
    /\ si' = si + 1
    /\ UNCHANGED di
    /\ \/ /\ si < Len(ValidationRun)
          /\ \/ /\ EnterLoop("initialStart")
                /\ pageUrl' = passportUrl
                /\ UNCHANGED << resultVars, pageTexts, redirected, caught >>
             \/ /\ \E m \in ErrMsgs :
                      /\ Record("validationTests",
                                SetKey(Get(Get(testResults, deviceName), "validationTests"),
                                       validationScenarios[si + 1].name,
                                       [status |-> "error", message |-> Text(m)]))
                      /\ pc' = "validationPause"
                /\ UNCHANGED << localVars, fallbackVars >>
       \/ /\ si >= Len(ValidationRun)
          /\ pc' = "navigationTest"
          /\ UNCHANGED << resultVars, localVars, fallbackVars >>
    /\ UNCHANGED << runVars, console, libVars >>

\* if (!startClicked) { console.log('Could not find initial Start button, trying
\* to continue...'); } and the validation script goes on to its input loop.
StartLoopEnd ==
    /\ pc = "afterLoop"
    /\ loop = "initialStart"
    /\ pc' = "inputLoop"
    /\ UNCHANGED << runVars, console, loopVars, resultVars, libVars, localVars,
                    fallbackVars >>

\* new Error('Could not find input field after clicking Start')
InputNotFound == Text("Could not find input field after clicking Start")

\* } catch (error) { testResults[deviceName].navigationTest.overall =
\*                     { status: 'error', message: error.message }; }
NavigationCatch(m) ==
    /\ Record("navigationTest",
              SetKey(Get(Get(testResults, deviceName), "navigationTest"), "overall",
                     [status |-> "error", message |-> m]))
    /\ pc' = "closeContext"

\* if (!inputFound) { throw new Error(...) }: the caller of the loop throws into
\* the catch block of the navigation test; with the input found the
\* navigation test goes on to its submit loop.
InputLoopEnd ==
    /\ pc = "afterLoop"
    /\ loop = "input"
    /\ \/ /\ ~flag
          /\ NavigationCatch(InputNotFound)
       \/ /\ flag
          /\ pc' = "submitLoop"
          /\ UNCHANGED resultVars
    /\ UNCHANGED << runVars, console, loopVars, libVars, localVars, fallbackVars >>

\* The steps of the complete navigation flow, in order.  Each has an item or
\* button it clicks when visible: #collectible1, #benefit1, #hunt1, the See
\* more button, #scanbutton, #settingsbutton.
CompleteSteps == << "collection", "benefits", "hunt", "leaderboard", "scan", "settings" >>

\* testResults[deviceName].navigationTest with [key] = { status: 'pass' }, and
\* after the last step with overall = { status: 'pass' } as well.
StepRecorded(key, last) ==
    LET nav == SetKey(Get(Get(testResults, deviceName), "navigationTest"), key,
                      [status |-> "pass"])
    IN  IF last THEN SetKey(nav, "overall", [status |-> "pass"]) ELSE nav

\* One step of the complete navigation flow (ci is the step's index; seen and
\* acted hold the steps whose item was visible and the clicks on items):
\*     if (await item.isVisible({...}).catch(() => false)) { await item.click(); ... }
\*     testResults[deviceName].navigationTest[step] = { status: 'pass' };
\* the assignment follows the if block whatever isVisible answered.  A click,
\* a pause or a scroll of the step may throw into the catch block of the flow.
CompleteStep ==
    /\ pc = "completeStep"
    /\ ci <= Len(CompleteSteps)
    /\ \/ /\ \/ /\ seen' = seen \cup {ci}
                /\ acted' = Append(acted, [candidate |-> ci, returned |-> TRUE])
             \/ UNCHANGED << seen, acted >>
          /\ Record("navigationTest", StepRecorded(CompleteSteps[ci], ci = Len(CompleteSteps)))
          /\ ci' = ci + 1
          /\ pc' = IF ci = Len(CompleteSteps) THEN "closeContext" ELSE "completeStep"
       \/ /\ \E m \in ErrMsgs : NavigationCatch(Text(m))
          /\ \/ /\ seen' = seen \cup {ci}
                /\ acted' = Append(acted, [candidate |-> ci, returned |-> FALSE])
             \/ UNCHANGED << seen, acted >>
          /\ UNCHANGED ci
    /\ UNCHANGED << runVars, console, loopVars, libVars, localVars, loop, flag >>

PassportNext ==
    \/ ValidationEth
    \/ ValidationEns
    \/ Login
    \/ Collection
    \/ FallbackProbe
    \/ FallbackExit
    \/ FallbackAct
    \/ FallbackConfirm
    \/ CollectionResult
    \/ StartLoopEnd
    \/ InputLoopEnd
    \/ Benefits
    \/ BenefitResult
    \/ ValidationInputLoop
    \/ ValidationInputLoopEnd
    \/ SubmitLoopEnd
    \/ CompleteStep
    \/ Hunt
    \/ Leaderboard
    \/ Scan
    \/ Settings
    \/ ErrorCheck
    \/ ValidationPause
    \/ NextValidation

PassportSpec == PassportInit /\ [][PassportNext]_vars

\* ------------------------------------------------------------ specification
Next ==
    \/ Launch
    \/ Mkdir
    \/ DeviceLoop
    \/ NewContext
    \/ NewPage
    \/ ScenarioLoop
    \/ Navigate
    \/ OpenForm
    \/ FillIdentity
    \/ SelectDropdown
    \/ FillField
    \/ Submit
    \/ WaitForURL
    \/ Verdict
    \/ InterWait
    \/ CloseContext
    \/ RenameVideo
    \/ BrowserClose
    \/ WriteFile
    \/ SingleNewPage
    \/ SingleForm
    \/ SingleWait
    \/ SingleVerify
    \/ SingleFinally

Spec == Init /\ [][Next]_vars

\* ------------------------------------------------------------------ properties
\* What the results object holds for the device of index i.
DeviceResults(i) ==
    IF Has(testResults, Devices[i]) THEN Get(testResults, Devices[i]) ELSE << >>

\* The names of the first n scenarios, in table order.
ScenarioNames(n) == [j \in 1..n |-> Scenarios[j].name]

\* The outcome recorded for the scenario of the current iteration.
CurrentOutcome == Get(Get(testResults, deviceName), scenario.name)

\* A multi-device mint-form script has left its device loop.
SweepOver == script \in FormScripts /\ pc \in {"browserClose", "writeFile", "done"}

\* The messages of the exceptions the environment may throw.
Thrown == {Text(m) : m \in ErrMsgs}

\* `${deviceFilename}-${formattedDate}.webm` for the device d.
VideoNameOf(d) == deviceToFilename(d) \o << "-" >> \o getFormattedDate \o WebmSuffix

\* C1 as stated: after a full run of a multi-device script every device holds
\* exactly one outcome for every scenario, written exactly once, also after a
\* device-level failure or a failing pause between scenarios.
C1_ExactlyOneOutcome ==
    (script \in FormScripts /\ pc = "done") =>
        \A i \in 1..Len(Devices) : \A j \in 1..Len(Scenarios) :
            /\ Has(DeviceResults(i), Scenarios[j].name)
            /\ << Devices[i], Scenarios[j].name >> \in DOMAIN writes
            /\ writes[<< Devices[i], Scenarios[j].name >>] = 1

\* C1, amended: no entry of the results object is ever written twice; after a
\* full run a device without a device-level failure holds exactly the outcomes
\* of all scenarios in table order, and a device with a device-level failure
\* (the pause between scenarios included) holds the outcomes of the scenarios
\* that ended before the failure, followed by its `error` entry.
C1_OutcomesUpToFailure ==
    /\ \A k \in DOMAIN writes : writes[k] = 1
    /\ (script \in FormScripts /\ pc = "done") =>
          \A i \in 1..Len(Devices) :
              /\ Has(testResults, Devices[i])
              /\ IF Has(DeviceResults(i), "error")
                 THEN \E n \in 0..Len(Scenarios) :
                          Keys(DeviceResults(i)) = ScenarioNames(n) \o << "error" >>
                 ELSE Keys(DeviceResults(i)) = ScenarioNames(Len(Scenarios))

\* C1 witness: a full run in which the pause after the first scenario of the
\* first device failed and the last device ran all its scenarios.
C1_FailedPauseThenFullDevice ==
    /\ script \in FormScripts
    /\ pc = "done"
    /\ Keys(DeviceResults(1)) = ScenarioNames(1) \o << "error" >>
    /\ Keys(DeviceResults(Len(Devices))) = ScenarioNames(Len(Scenarios))

\* C2 as stated: whenever a step of a scenario threw, the scenario is recorded
\* with status 'error'.
C2_EveryThrowIsError ==
    (script \in FormScripts /\ pc = "interWait" /\ caught # {}) =>
        CurrentOutcome.status = "error"

\* The steps of a scenario whose exceptions reach the scenario's catch block
\* before the verdict.
UncaughtSteps == {"goto", "openForm", "fillIdentity", "fillField", "submit"}

\* A step without a handler of its own that ends the scenario has recorded
\* status 'error' with the exception's message for the current scenario.
UncaughtStepEndsInError ==
    (pc \in UncaughtSteps /\ pc' = "interWait") =>
        /\ CurrentOutcome'.status = "error"
        /\ CurrentOutcome'.message \in Thrown
        /\ di' = di
        /\ si' = si

\* The dropdown and the redirect wait go on to the next step and record nothing.
OwnHandlerRecordsNothing ==
    pc \in {"dropdown", "waitForURL"} =>
        /\ pc' \in {"fillField", "verdict"}
        /\ testResults' = testResults

\* After the pause between scenarios: the next scenario of the device, or the
\* device's `error` entry and the next device.
PauseLeadsOn ==
    pc = "interWait" =>
        \/ /\ pc' = "scenarioLoop"
           /\ si' = si + 1
           /\ di' = di
        \/ /\ pc' = "deviceLoop"
           /\ di' = di + 1
           /\ Has(Get(testResults', Devices[di]), "error")

\* C2, amended: an exception of a step without a handler of its own ends the
\* scenario with status 'error' and the exception's message; the dropdown and
\* the redirect wait catch their own exceptions and record nothing; no scenario
\* is recorded twice; after the pause between scenarios the next scenario of
\* the device follows, or, when the pause throws, the device's `error` entry
\* and the next device; every device of the list is swept.
C2_UncaughtStepIsError ==
    /\ [](\A k \in DOMAIN writes : writes[k] = 1)
    /\ [][UncaughtStepEndsInError]_vars
    /\ [][OwnHandlerRecordsNothing]_vars
    /\ [][PauseLeadsOn]_vars
    /\ [](SweepOver => Len(testResults) = Len(Devices))

\* C2 witness: the first scenario of a device ended with status 'error' and the
\* script is at the goto of the second.
C2_ErrorThenNextScenario ==
    /\ script \in FormScripts
    /\ pc = "goto"
    /\ si = 2
    /\ Get(Get(testResults, deviceName), Scenarios[1].name).status = "error"

\* A failure before the device's page exists leaves the device with its
\* `error` entry alone, the other devices' results untouched, and takes the
\* loop to the next device.
SetupFailureSkipsDevice ==
    (pc \in {"newContext", "newPage"} /\ pc' = "deviceLoop") =>
        /\ di' = di + 1
        /\ Keys(Get(testResults', Devices[di])) = << "error" >>
        /\ Get(Get(testResults', Devices[di]), "error") \in Thrown \cup {MissingProfileMessage}
        /\ \A i \in 1..Len(testResults) : i # di => testResults'[i] = testResults[i]

\* C3: a failure of the profile lookup, of newContext or of newPage leaves the
\* device with its `error` entry alone and takes the loop to the next device,
\* the other devices' results untouched; the loop ends only after every device
\* of the list; the results file written at the end holds the results object,
\* the `error` entries included.
C3_DeviceFailureAbortsOnlyDevice ==
    /\ [][SetupFailureSkipsDevice]_vars
    /\ [](SweepOver => Len(testResults) = Len(Devices))
    /\ []((script \in FormScripts /\ pc = "done") =>
            /\ Len(resultsFile) = 1
            /\ \A i \in 1..Len(Devices) :
                  /\ resultsFile[1][i].k = Devices[i]
                  /\ Has(DeviceResults(i), "error") =>
                        /\ Has(resultsFile[1][i].v, "error")
                        /\ Get(resultsFile[1][i].v, "error") = JsonString(Get(DeviceResults(i), "error")))

\* C3 witness: a full run whose first device had no profile and whose last
\* device ran all its scenarios, with the results file written.
C3_FirstDeviceWithoutProfile ==
    /\ script = "text"
    /\ pc = "done"
    /\ Keys(DeviceResults(1)) = << "error" >>
    /\ Get(DeviceResults(1), "error").arg = Devices[1]
    /\ Keys(DeviceResults(Len(Devices))) = ScenarioNames(Len(Scenarios))
    /\ Len(resultsFile) = 1

\* Both a success text and an error phrase are on the page the text script
\* checked.
BothTextsFound ==
    /\ FoundSuccessMessage(pageTexts) # Null
    /\ FoundErrorPhrase(pageTexts) # Null

\* Both a success indicator and an error selector are visible on the page the
\* single-run script verified.
BothIndicatorsVisible ==
    /\ \E i \in 1..Len(successIndicators) : SelectorVisible(pageTexts, successIndicators[i])
    /\ SingleFoundError(pageTexts)

\* C4: with both a success text and an error text found after the submit, the
\* text script records pass for a scenario that expects an error and fail for
\* one that expects success (status 'error', with the exception's message, only
\* when the screenshot of that branch throws); the single-run script never
\* prints TEST PASSED, and its first verdict line is TEST FAILED or, after an
\* exception, TEST FAILED WITH ERROR.
C4_ErrorTextWins ==
    /\ (script = "text" /\ pc = "interWait" /\ BothTextsFound) =>
          \/ CurrentOutcome.status = (IF scenario.expectError THEN "pass" ELSE "fail")
          \/ /\ CurrentOutcome.status = "error"
             /\ CurrentOutcome.message \in Thrown
    /\ (script = "single" /\ BothIndicatorsVisible) =>
          /\ \A i \in 1..Len(console) : console[i] # "TEST PASSED"
          /\ pc \in {"singleFinally", "done", "crashed"} =>
                console[1] \in {"TEST FAILED", "TEST FAILED WITH ERROR"}

\* C4 witness: the text script found both texts in a scenario that expects
\* success and recorded fail.
C4_BothTextsSuccessExpected ==
    /\ script = "text"
    /\ pc = "interWait"
    /\ BothTextsFound
    /\ ~scenario.expectError
    /\ CurrentOutcome.status = "fail"

\* C5 as stated: in one run of a selector-fallback loop the action (click or
\* fill) is carried out on at most one candidate.
C5_AtMostOneCandidate ==
    Cardinality({i \in 1..Len(acted) : acted[i].returned}) <= 1

\* The statements of a selector-fallback loop.
LoopPcs == {"loopHead", "act", "confirm"}

\* While no candidate was visible, a step of the loop stays in the loop or
\* leaves it by its end, and neither records a result nor throws.
QuietWhileUnseen ==
    (pc \in LoopPcs /\ seen' = {}) =>
        /\ pc' \in {"loopHead", "afterLoop"}
        /\ UNCHANGED << testResults, crashed, di, acted, flag >>

\* C6: a selector-fallback loop none of whose candidates was visible ends with
\* its flag false and without having invoked its action, and no step of it
\* leaves the loop by an exception.
C6_NoCandidateNoAction ==
    /\ []((pc = "afterLoop" /\ seen = {}) => (~flag /\ acted = << >>))
    /\ [][QuietWhileUnseen]_vars

\* C6 witness: the inputSelectors loop of the navigation test has ended with no
\* candidate visible.
C6_InputLoopWithoutCandidate ==
    /\ pc = "afterLoop"
    /\ loop = "input"
    /\ ci > Len(inputSelectors)
    /\ seen = {}
    /\ ~flag
    /\ acted = << >>

\* The fields of the results file contract, and the fields the text script adds.
ContractFields == {"status", "message", "screenshot", "redirectUrl"}
TextScriptFields == {"errorMessage", "successMessage", "currentUrl"}

\* Every value stored under a scenario name is a record with a status of the
\* contract and a message, and with no field outside `extra` besides.
OutcomesWithin(extra) ==
    \A i \in 1..Len(testResults) :
        LET obj == testResults[i].v
        IN  \A j \in 1..Len(obj) :
                obj[j].k # "error" =>
                    /\ {"status", "message"} \subseteq DOMAIN obj[j].v
                    /\ obj[j].v.status \in {"pass", "fail", "error"}
                    /\ DOMAIN obj[j].v \subseteq ContractFields \cup extra

\* C7 as stated: every value under results[device][scenario] is a record with
\* status pass, fail or error and a message, and screenshot and redirectUrl
\* are its only other fields.
C7_ContractFieldsOnly == script \in FormScripts => OutcomesWithin({})

\* C7, amended: in the mint-form scripts every value under
\* results[device][scenario] is a record with status pass, fail or error and a
\* message; the redirect script adds at most screenshot and redirectUrl, the
\* text script at most these and errorMessage, successMessage and currentUrl.
C7_OutcomeRecords ==
    /\ script = "redirect" => OutcomesWithin({})
    /\ script = "text" => OutcomesWithin(TextScriptFields)

\* C7 witness: the text script has recorded a pass that carries successMessage
\* and currentUrl.
C7_TextOutcomeWithExtras ==
    /\ script = "text"
    /\ pc = "interWait"
    /\ {"successMessage", "currentUrl"} \subseteq DOMAIN CurrentOutcome

\* C8 as stated: a video file under a device's name is the file that device's
\* context recorded.
C8_OwnVideoUnderOwnName ==
    \A i \in 1..Len(Devices) :
        VideoNameOf(Devices[i]) \in DOMAIN videoDir => videoDir[VideoNameOf(Devices[i])] = i

\* A context is created only while no context is open.
CreatedAfterClose == (contexts' \ contexts # {}) => contexts = {}

\* C9 as stated: when a device's context is created, the context of every
\* earlier device has been closed.
C9_ClosedBeforeNextContext == [][CreatedAfterClose]_vars

\* C10 as stated: no exception leaves the script uncaught, and none is caught
\* by a handler that only logs it.
C10_NothingLost ==
    /\ crashed = << >>
    /\ caught \cap {"dropdown", "loadState"} = {}


\* A scenario of a mint-form script has its verdict, not by an exception.
VerdictReached ==
    /\ script \in FormScripts
    /\ pc = "interWait"
    /\ CurrentOutcome.status # "error"

\* C11 as stated, in the redirect script: a scenario that expects success and
\* whose page left the origin URL after the submit is recorded as pass, with a
\* redirectUrl that differs from the origin URL.
C11_RedirectIsPass ==
    (VerdictReached /\ script = "redirect" /\ ~scenario.expectError
        /\ pageUrl # originalUrl) =>
        /\ CurrentOutcome.status = "pass"
        /\ "redirectUrl" \in DOMAIN CurrentOutcome
        /\ CurrentOutcome.redirectUrl # originalUrl


\* C12 as stated: in the text script a pass of a scenario that expects an
\* error and reports the error text it observed is recorded only when that
\* text contains the scenario's expectedErrorText.
C12_PassOnlyOnDeclaredPhrase ==
    (script = "text" /\ pc = "interWait" /\ scenario.expectError
        /\ CurrentOutcome.status = "pass"
        /\ "errorMessage" \in DOMAIN CurrentOutcome) =>
        Contains(CurrentOutcome.errorMessage, scenario.expectedErrorText)


\* Neither a success text nor an error phrase is on the page, and the page is
\* at the origin URL.
NothingObserved ==
    /\ FoundSuccessMessage(pageTexts) = Null
    /\ FoundErrorPhrase(pageTexts) = Null
    /\ pageUrl = originalUrl

\* C13 as stated: with no error text, no success text and the page still at
\* the origin URL, a scenario that expects an error is recorded as pass and a
\* scenario that expects success as fail.
C13_NothingObservedVerdict ==
    (VerdictReached /\ NothingObserved) =>
        CurrentOutcome.status = (IF scenario.expectError THEN "pass" ELSE "fail")


\* The results object holds an outcome whose errorMessage is null.
HoldsNullField ==
    \E i \in 1..Len(testResults) : \E j \in 1..Len(testResults[i].v) :
        /\ testResults[i].v[j].k # "error"
        /\ "errorMessage" \in DOMAIN testResults[i].v[j].v
        /\ testResults[i].v[j].v.errorMessage = Null

C15_AtMostOneContext ==
    script \in FormScripts => Cardinality(contexts) <= 1


\* C16 as stated, the case it singles out: in the redirect script, when the
\* page is still on the origin URL after the wait, the redirected flag is false.
C16_StayedMeansNotRedirected ==
    (script = "redirect" /\ pc = "verdict" /\ pageUrl = originalUrl) => ~redirected


\* The loop stands before the visibility check of a candidate.
AboutToCheck ==
    /\ pc = "loopHead"
    /\ loop \in FallbackLoops
    /\ ci <= Len(Candidates(loop))

\* No candidate is checked once the action on an earlier candidate has returned.
NoCheckAfterAction ==
    (AboutToCheck /\ pc' # pc) => \A k \in 1..Len(acted) : ~acted[k].returned

\* C17 as stated: a selector-fallback loop checks its candidates in declared
\* order and acts on the candidate just found visible, and once the action on a
\* candidate has been carried out no later candidate is checked or acted upon.
C17_FirstVisibleThenStop ==
    /\ []((pc = "act") => (ci \in seen /\ \A k \in seen : k <= ci))
    /\ [][AboutToCheck => ci' \in {ci, ci + 1}]_vars
    /\ [][NoCheckAfterAction]_vars

\* A step of a selector-fallback loop stays in the loop or leaves it by its end.
StaysInLoop == (pc \in LoopPcs /\ loop \in FallbackLoops) => pc' \in LoopPcs \cup {"afterLoop"}

\* C18 as stated: an exception raised while checking or acting on a candidate
\* never leaves the loop, and a loop all of whose candidates failed ends with
\* its flag false.
C18_ExceptionsStayInLoop ==
    /\ [][StaysInLoop]_vars
    /\ []((pc = "afterLoop" /\ \A k \in 1..Len(acted) : ~acted[k].returned) => ~flag)


\* Every entry of the results object is in the same place with the same value
\* after the step.
StoredStays ==
    script \in FormScripts =>
    \A i \in 1..Len(testResults) :
        /\ i <= Len(testResults')
        /\ testResults'[i].k = testResults[i].k
        /\ \A j \in 1..Len(testResults[i].v) :
              /\ j <= Len(testResults'[i].v)
              /\ testResults'[i].v[j] = testResults[i].v[j]

\* C19: an outcome stored under results[device][scenario] is never overwritten,
\* changed or removed for the rest of the run of a mint-form script: every
\* entry is written once and stays as it is through every later step.
C19_OutcomeNeverOverwritten ==
    /\ [][StoredStays]_vars
    /\ [](script \in FormScripts => \A k \in DOMAIN writes : writes[k] = 1)

\* C19 witness: the first device recorded a pass for its first scenario, a
\* later exception made its catch block record the device's error, and at the
\* end of the run the pass is still there.
C19_OutcomeSurvivesDeviceError ==
    /\ script \in FormScripts
    /\ pc = "done"
    /\ Has(DeviceResults(1), "error")
    /\ Has(DeviceResults(1), Scenarios[1].name)
    /\ Get(DeviceResults(1), Scenarios[1].name).status = "pass"
    /\ Keys(DeviceResults(1)) = << Scenarios[1].name, "error" >>


\* The verdict of the scenario is one of the noteworthy cases: an expected
\* error that was found (pass of an error scenario), an unexpected success
\* (fail of an error scenario) or an unexpected failure (fail of a success
\* scenario).
Noteworthy == scenario.expectError \/ CurrentOutcome.status = "fail"

\* C20 as stated: in each noteworthy case the outcome holds the path of a
\* screenshot.
C20_NoteworthyHasScreenshot ==
    (VerdictReached /\ Noteworthy) => "screenshot" \in DOMAIN CurrentOutcome


\* C21 as stated, for the two validation scenarios of the passport navigation
\* script: a scenario is not evaluated on page state left by the previous
\* scenario, so a pass of validation_ens rests on the message shown for its own
\* input.
C21_EvaluatedOnOwnPage ==
    (script = "passportNav" /\ pc = "login"
        /\ Get(DeviceResults(1), "validation_ens") = "pass") =>
        pageTexts = {WrongEns}


\* The run under the assumption that every call returns or throws: a step that
\* can be taken is taken.
LiveSpec == Spec /\ WF_vars(Next)

\* C22 as stated: a multi-device run terminates with every device of the list
\* visited, the browser closed and the results file written.
C22_RunCompletes ==
    (script \in FormScripts /\ browser = "open") ~>
        (/\ pc = "done"
         /\ browser = "closed"
         /\ Keys(testResults) = Devices
         /\ Len(resultsFile) = 1)


\* C23: after the device loop of a multi-device run the results map has one key
\* for every device of the list, in list order; the entry of a device without
\* the full list of scenario outcomes holds the error field; and the results
\* file has the same keys.
C23_KeyForEveryDevice ==
    SweepOver =>
        /\ Keys(testResults) = Devices
        /\ \A i \in 1..Len(Devices) :
              \/ Keys(DeviceResults(i)) = ScenarioNames(Len(Scenarios))
              \/ Has(DeviceResults(i), "error")
        /\ pc = "done" => Keys(resultsFile[1]) = Devices

\* C23 witness: the run is over, the first device failed before its first
\* scenario and holds only the error field, the second device failed after its
\* first scenario.
C23_FailedDevicesKeepTheirKey ==
    /\ script \in FormScripts
    /\ pc = "done"
    /\ Len(Devices) = 2
    /\ Keys(testResults) = Devices
    /\ Keys(DeviceResults(1)) = << "error" >>
    /\ Keys(DeviceResults(2)) = << Scenarios[1].name, "error" >>


\* What the ladder of the text script reads: expectError, error text found,
\* success text found, redirected.
TextInputs(sc, texts, url) ==
    << sc.expectError, FoundErrorPhrase(texts) # Null,
       FoundSuccessMessage(texts) # Null, url # originalUrl >>

\* What the ladder of the redirect script reads: expectError, the redirected
\* flag and whether the URL is still the origin.
RedirectInputs(sc, redir, url) == << sc.expectError, redir, url = originalUrl >>

\* The status recorded for the current scenario is the status of every
\* scenario whose checks gave the same inputs.
SameInputsSameStatus ==
    IF script = "text"
    THEN \A sc \in Range(Scenarios), texts \in SUBSET PageTextPool,
            url \in {originalUrl, RedirectUrl}, textContentOk \in BOOLEAN :
            TextInputs(sc, texts, url) = TextInputs(scenario, pageTexts, pageUrl) =>
                TextVerdict(sc, FoundSuccessMessage(texts),
                            FoundErrorMessage(texts, textContentOk),
                            url, deviceFilename).outcome.status = CurrentOutcome.status
    ELSE \A sc \in Range(Scenarios), redir \in BOOLEAN, url \in {originalUrl, RedirectUrl} :
            RedirectInputs(sc, redir, url) = RedirectInputs(scenario, redirected, pageUrl) =>
                RedirectVerdict(sc, redir, url, deviceFilename).outcome.status
                    = CurrentOutcome.status

\* C24: a scenario that finishes its checks without an exception has exactly
\* one outcome, written once, whose status is 'pass' or 'fail' and is fixed by
\* the inputs of the verdict ladder.
C24_VerdictTotalSingleValued ==
    VerdictReached =>
        /\ CurrentOutcome.status \in {"pass", "fail"}
        /\ writes[<< deviceName, scenario.name >>] = 1
        /\ SameInputsSameStatus

\* C24 witness: the text script reached a verdict for a success scenario with
\* an error text and a success text on a redirected page.
C24_AllFourObserved ==
    /\ VerdictReached
    /\ script = "text"
    /\ TextInputs(scenario, pageTexts, pageUrl) = << FALSE, TRUE, TRUE, TRUE >>
    /\ CurrentOutcome.status = "fail"


\* C25 as stated: a single-run script that launched its browser does not end,
\* normally or by an exception, with the browser still open.
C25_SingleRunClosesBrowser ==
    (script \in SingleRunScripts /\ pc \in {"done", "crashed"}) => browser # "open"


\* The outcome recorded for the validation scenario of the current iteration.
ValidationOutcome ==
    Get(Get(Get(testResults, deviceName), "validationTests"), validationScenarios[si].name)

\* The current validation scenario has an outcome.
ValidationRecorded ==
    Has(Get(Get(testResults, deviceName), "validationTests"), validationScenarios[si].name)

\* C26 as stated, for the validation script with selector fallbacks: a
\* validation scenario recorded as pass had a submit button clicked before the
\* error text was looked for.
C26_PassOnlyAfterSubmit ==
    (script = "passportValidation" /\ pc = "validationPause" /\ loop = "submit"
        /\ ValidationRecorded /\ ValidationOutcome.status = "pass") =>
        (flag /\ \E k \in 1..Len(acted) : acted[k].returned)


\* The outcome of a scenario whose input field was not found.
InputFieldNotFound == [status |-> "error", message |-> Text("Input field not found")]

\* The step after an input loop none of whose candidates was visible records
\* the error outcome and ends the scenario: no loop is entered, nothing is
\* clicked or filled.
NotFoundEndsScenario ==
    (pc = "afterLoop" /\ loop = "validationInput" /\ seen = {}) =>
        /\ pc' = "nextValidation"
        /\ Get(Get(Get(testResults', deviceName), "validationTests"),
               validationScenarios[si].name) = InputFieldNotFound
        /\ UNCHANGED << loop, acted, flag, di, si >>

\* From the end of a scenario the next scenario begins on the same device: its
\* fallback loops start, or its navigation throws into its own catch block.
NextScenarioRuns ==
    (pc = "nextValidation" /\ si < Len(ValidationRun)) =>
        /\ si' = si + 1
        /\ di' = di
        /\ \/ pc' = "loopHead" /\ loop' = "initialStart"
           \/ pc' = "validationPause"

\* C27: in the validation script with selector fallbacks, when no input
\* candidate is visible the scenario is recorded as error 'Input field not
\* found', no submit loop and no error-text check are run for it, and the next
\* scenario runs.
C27_InputNotFound ==
    /\ [][NotFoundEndsScenario]_vars
    /\ [][NextScenarioRuns]_vars

\* C27 witness: the first scenario's input loop ended with no candidate
\* visible and the scenario holds the error outcome, with another scenario to
\* come.
C27_FirstScenarioWithoutInput ==
    /\ script = "passportValidation"
    /\ pc = "nextValidation"
    /\ loop = "validationInput"
    /\ seen = {}
    /\ acted = << >>
    /\ si = 1
    /\ si < Len(ValidationRun)
    /\ ValidationOutcome = InputFieldNotFound


\* The steps of the navigation script with plain string results.
NavSteps ==
    {"validation_eth", "validation_ens", "login", "collection", "benefits", "hunt",
     "leaderboard", "scan", "settings"}

\* C28 as stated: a device sweep of the navigation script that reaches its end
\* without a device-level error has recorded 'pass' or 'fail' for every step.
C28_EveryStepRecorded ==
    (script = "passportNav" /\ pc = "closeContext") =>
        \A s \in NavSteps :
            /\ Has(DeviceResults(1), s)
            /\ Get(DeviceResults(1), s) \in {"pass", "fail"}


\* navigationTest of the first device.
NavigationTest == Get(DeviceResults(1), "navigationTest")

\* The step with index k of the complete navigation flow is recorded as pass.
StepPassed(k) ==
    /\ Has(NavigationTest, CompleteSteps[k])
    /\ NavigationTest[CHOOSE i \in 1..Len(NavigationTest) :
                          NavigationTest[i].k = CompleteSteps[k]].v.status = "pass"

\* The steps of the flow C29 names.
ItemSteps == {k \in 1..Len(CompleteSteps) : CompleteSteps[k] # "leaderboard"}

\* C29 as stated: in the complete navigation flow a step is recorded as pass
\* only if its item was visible and was clicked, and overall is pass only if
\* every step is recorded as pass.
C29_PassOnlyIfClicked ==
    script = "passportComplete" =>
        /\ \A k \in ItemSteps :
              StepPassed(k) =>
                  /\ k \in seen
                  /\ \E a \in 1..Len(acted) : acted[a].candidate = k /\ acted[a].returned
        /\ (Has(NavigationTest, "overall") /\ Get(NavigationTest, "overall").status = "pass") =>
              \A k \in 1..Len(CompleteSteps) : StepPassed(k)

====
